---- MODULE Spec2Model ----
(***************************************************************************)
(* Model of pubmed_author_papers.py: the construction of a Paper from a    *)
(* PubMed record, and the incremental ingestion that main performs on the  *)
(* two persisted files _data/recent_pubmed_ids.txt and _data/papers.yml.   *)
(*                                                                         *)
(* Text is a sequence of tokens (a token is a run of characters that no    *)
(* operation of the program cuts); str.join and str.split are computed on  *)
(* these sequences.  A Python dict is a function whose DOMAIN is the set   *)
(* of keys that are present.  A file is [exists, text].                    *)
(***************************************************************************)
EXTENDS Integers, Sequences, FiniteSets, TLC

VARIABLES
    idsFile,          \* _data/recent_pubmed_ids.txt
    papersFile,       \* _data/papers.yml
    pc,               \* position of the current run of main
    args,             \* parsed command line: verbose, do_not_populate, max
    current_papers,   \* main: what was read from papers.yml
    retmax,           \* max_search handed to search_author by this run
    ids,              \* main: identifiers returned by search_author
    previous_ids,     \* fetch_new_papers: identifiers read from the file
    ids_new,          \* fetch_new_papers: the delta
    papers,           \* main: value returned by fetch_new_papers
    fetched,          \* identifiers handed to fetch_details during this run
    parsed,           \* number of Paper constructions started during this run
    writes,           \* number of content writes to the two files in this run
    out,              \* messages printed by this run
    idsFile0,         \* identifier file when this run started
    papersFile0,      \* citation store when this run started
    prevSeen,         \* identifiers the previous run's search returned
    prevOK,           \* the previous run was a completed pass with writes enabled
    rec,              \* input of the Paper constructor
    paper             \* Paper constructed from rec

vars == <<idsFile, papersFile, pc, args, current_papers, retmax, ids,
          previous_ids, ids_new, papers, fetched, parsed, writes, out,
          idsFile0, papersFile0, prevSeen, prevOK, rec, paper>>

mainVars == <<idsFile, papersFile, pc, args, current_papers, retmax, ids,
              previous_ids, ids_new, papers, fetched, parsed, writes, out,
              idsFile0, papersFile0, prevSeen, prevOK>>

paperVars == <<rec, paper>>

(***************************************************************************)
(* Bounds                                                                  *)
(***************************************************************************)
\* longest author list of an input record
MaxAuthors == 3

\* longest identifier list the search returns
MaxIds == 2

\* longest candidate list given to the delta computation
MaxCandidates == 3

\* longest list of known identifiers given to the delta computation
MaxKnown == 2

(***************************************************************************)
(* Text and dict helpers                                                   *)
(***************************************************************************)
Range(s) == {s[i] : i \in 1..Len(s)}

Has(d, k) == k \in DOMAIN d

\* sep.join(list): the elements of list with sep between neighbours
RECURSIVE Join(_, _)
Join(list, sep) ==
    IF list = <<>> THEN <<>>
    ELSE IF Len(list) = 1 THEN list[1]
    ELSE list[1] \o sep \o Join(Tail(list), sep)

\* ''.join(list)
Concat(list) == Join(list, <<>>)

\* text.split(','): always at least one piece; the empty text gives ['']
RECURSIVE Split(_)
Split(text) ==
    IF \A i \in 1..Len(text) : text[i] # ","
    THEN <<text>>
    ELSE LET k == CHOOSE i \in 1..Len(text) :
                      /\ text[i] = ","
                      /\ \A j \in 1..(i - 1) : text[j] # ","
         IN  <<SubSeq(text, 1, k - 1)>> \o Split(SubSeq(text, k + 1, Len(text)))

\* all sequences over S of length at most n
SeqsUpTo(S, n) == UNION {[1..k -> S] : k \in 0..n}

\* sequences without repetition
Distinct(s) == \A i, j \in 1..Len(s) : i # j => s[i] # s[j]

(***************************************************************************)
(* Paper                                                                   *)
(***************************************************************************)
KeyError == [ok |-> FALSE]

\* raises KeyError unless the author has both a LastName and a ForeName
parse_author_ok(author_info) ==
    Has(author_info, "LastName") /\ Has(author_info, "ForeName")

parse_author(author_info) ==
    Join(<< <<author_info.LastName>>, <<author_info.ForeName>> >>, <<", ">>)

parse_journal_ok(journal_info, pagination) ==
    /\ Has(journal_info, "ISOAbbreviation")
    /\ Has(journal_info, "JournalIssue") =>
         LET issue == journal_info.JournalIssue IN
         /\ Has(issue, "Volume")
         /\ (pagination # <<>> /\ Has(issue, "Issue")) =>
                Has(pagination, "MedlinePgn")

\* pagination is <<>> when it is False or an empty dict (both are falsy)
parse_journal(journal_info, pagination) ==
    LET abbrev == <<journal_info.ISOAbbreviation>> IN
    IF Has(journal_info, "JournalIssue")
    THEN LET issue == journal_info.JournalIssue IN
         IF pagination # <<>> /\ Has(issue, "Issue")
         THEN Join(<<abbrev, <<issue.Volume>>, <<issue.Issue>>,
                     <<pagination.MedlinePgn>> >>, <<", ">>)
         ELSE Join(<<abbrev, <<issue.Volume>> >>, <<", ">>)
    ELSE abbrev

AuthorThreshold4 == 4

\* the threshold of len(authors) < 3
AuthorThreshold == 3

first_author(authors) ==
    IF Len(authors) < AuthorThreshold
    THEN Join([i \in 1..Len(authors) |-> parse_author(authors[i])], <<", ">>)
           \o <<".">>
    ELSE parse_author(authors[1]) \o <<" et al.">>

\* the authors whose names first_author reads
authors_read(authors) ==
    IF Len(authors) < AuthorThreshold THEN Range(authors) ELSE {authors[1]}

paper_year(article_info) ==
    IF Len(article_info.ArticleDate) > 0
    THEN <<article_info.ArticleDate[1].Year>>
    ELSE IF /\ Has(article_info.Journal, "JournalIssue")
            /\ Has(article_info.Journal.JournalIssue, "PubDate")
            /\ Has(article_info.Journal.JournalIssue.PubDate, "Year")
         THEN <<article_info.Journal.JournalIssue.PubDate.Year>>
         ELSE <<>>

paper_link(article_info) ==
    IF Len(article_info.ELocationID) > 0
    THEN <<"https://doi.org/", article_info.ELocationID[1]>>
    ELSE <<>>

paper_yml(p) ==
    <<"- author: ">> \o p.first_author \o <<"\n  title: '">> \o p.title
      \o <<" ">> \o p.journal_info \o <<".'\n  alt_link: '">> \o p.link
      \o <<"'\n  year: ">> \o p.year \o <<"\n\n">>

paper_long_print(p) ==
    <<"author: ">> \o p.first_author \o <<"\nyear: ">> \o p.year
      \o <<"\ntitle: '">> \o p.title \o <<" \n">> \o p.journal_info
      \o <<".'\nabstract: '">> \o p.abstract \o <<"'\nDOI_link: '">>
      \o p.link \o <<"'\n\n">>

\* which lookups of __init__ raise
Paper_ok(pubmed_entry) ==
    /\ Has(pubmed_entry, "MedlineCitation")
    /\ Has(pubmed_entry.MedlineCitation, "Article")
    /\ LET article_info == pubmed_entry.MedlineCitation.Article IN
       /\ Has(article_info, "AuthorList")
       /\ \A a \in authors_read(article_info.AuthorList) : parse_author_ok(a)
       /\ Has(article_info, "ArticleDate")
       /\ Len(article_info.ArticleDate) > 0 =>
              Has(article_info.ArticleDate[1], "Year")
       /\ Has(article_info, "ArticleTitle")
       /\ Has(article_info, "Journal")
       /\ parse_journal_ok(article_info.Journal,
                           IF Has(article_info, "Pagination")
                           THEN article_info.Pagination ELSE <<>>)
       /\ Has(article_info, "ELocationID")

Paper(pubmed_entry) ==
    IF ~Paper_ok(pubmed_entry) THEN KeyError
    ELSE
    LET article_info == pubmed_entry.MedlineCitation.Article
        pagination == IF Has(article_info, "Pagination")
                      THEN article_info.Pagination ELSE <<>>
        p == [abstract     |-> IF Has(article_info, "Abstract")
                               THEN <<article_info.Abstract>> ELSE <<>>,
              first_author |-> first_author(article_info.AuthorList),
              year         |-> paper_year(article_info),
              title        |-> <<article_info.ArticleTitle>>,
              journal_info |-> parse_journal(article_info.Journal, pagination),
              link         |-> paper_link(article_info)]
    IN  [ok           |-> TRUE,
         abstract     |-> p.abstract,
         first_author |-> p.first_author,
         year         |-> p.year,
         title        |-> p.title,
         journal_info |-> p.journal_info,
         link         |-> p.link,
         yml          |-> paper_yml(p),
         long_print   |-> paper_long_print(p)]

(***************************************************************************)
(* Input records of the Paper constructor                                  *)
(***************************************************************************)
Authors ==
    {[LastName |-> "Tran", ForeName |-> "Lina"],
     [LastName |-> "Doe", ForeName |-> "J"],
     [CollectiveName |-> "Consortium"]}

JournalIssues ==
    {[PubDate |-> d] @@ v @@ i :
        d \in {[Year |-> "2017"], [MedlineDate |-> "2017 Spring"]},
        v \in {<<>>, [Volume |-> "38"]},
        i \in {<<>>, [Issue |-> "4"]}}

Journals ==
    {[ISOAbbreviation |-> "J. Neurosci."]}
      \cup {[ISOAbbreviation |-> "J. Neurosci.", JournalIssue |-> ji] :
               ji \in JournalIssues}

Paginations == {<<>>, [Pagination |-> [MedlinePgn |-> "100-110"]],
                [Pagination |-> [StartPage |-> "100"]]}

Articles ==
    {[ArticleDate |-> ad, ELocationID |-> el, Journal |-> j]
        @@ au @@ ti @@ pg @@ ab :
        ad \in {<<>>, <<[Year |-> "2018"]>>},
        el \in {<<>>, <<"10.1000/x">>},
        j  \in Journals,
        au \in {<<>>} \cup {[AuthorList |-> l] :
                               l \in SeqsUpTo(Authors, MaxAuthors)},
        ti \in {<<>>, [ArticleTitle |-> "A title"]},
        pg \in Paginations,
        ab \in {<<>>, [Abstract |-> "An abstract"]}}

RecordSet == {[MedlineCitation |-> [Article |-> a]] : a \in Articles}

NoPaper == [ok |-> FALSE, none |-> TRUE]

(***************************************************************************)
(* The record source (Entrez): identifiers and the records behind them     *)
(***************************************************************************)
Ids == {<<"1">>, <<"2">>, <<"1", "2">>}

TitleOf(id) ==
    CASE id = <<"1">> -> "Title of 1"
      [] id = <<"2">> -> "Title of 2"
      [] OTHER        -> "Title of 12"

AuthorsOf(id) ==
    CASE id = <<"1">> -> <<[LastName |-> "Tran", ForeName |-> "Lina"]>>
      [] id = <<"2">> -> <<[LastName |-> "Tran", ForeName |-> "Lina"],
                           [LastName |-> "Doe", ForeName |-> "J"],
                           [LastName |-> "Roe", ForeName |-> "R"]>>
      [] OTHER        -> <<[LastName |-> "Doe", ForeName |-> "J"],
                           [LastName |-> "Tran", ForeName |-> "Lina"]>>

\* a record the parser accepts
GoodRecord(id) ==
    [MedlineCitation |->
       [Article |->
          [AuthorList   |-> AuthorsOf(id),
           ArticleTitle |-> TitleOf(id),
           ArticleDate  |-> IF id = <<"1">> THEN <<[Year |-> "2018"]>> ELSE <<>>,
           ELocationID  |-> IF id = <<"2">> THEN <<>> ELSE <<"10.1000/x">>,
           Journal      |->
              IF id = <<"2">>
              THEN [ISOAbbreviation |-> "J. Neurosci."]
              ELSE [ISOAbbreviation |-> "J. Neurosci.",
                    JournalIssue |-> [Volume |-> "38", Issue |-> "4",
                                      PubDate |-> [Year |-> "2017"]]],
           Pagination   |-> [MedlinePgn |-> "100-110"]]]]

\* a record without a title, on which the parser raises
MalformedRecord(id) ==
    [MedlineCitation |->
       [Article |->
          [AuthorList  |-> AuthorsOf(id),
           ArticleDate |-> <<>>,
           ELocationID |-> <<>>,
           Journal     |-> [ISOAbbreviation |-> "J. Neurosci."]]]]

\* what Entrez.efetch can return for id_list: one record per identifier
fetch_details(id_list) ==
    {r \in [1..Len(id_list) -> UNION {{GoodRecord(i), MalformedRecord(i)} :
                                        i \in Ids}] :
        \A k \in 1..Len(id_list) :
            r[k] \in {GoodRecord(id_list[k]), MalformedRecord(id_list[k])}}

\* what Entrez.esearch can return: at most max_search distinct identifiers
search_author(max_search) ==
    {l \in SeqsUpTo(Ids, MaxIds) : Distinct(l) /\ Len(l) <= max_search}

(***************************************************************************)
(* Files                                                                   *)
(***************************************************************************)
AbsentFile == [exists |-> FALSE, text |-> <<>>]

EmptyFile == [exists |-> TRUE, text |-> <<>>]

FileOf(text) == [exists |-> TRUE, text |-> text]

\* the identifiers a reader of the identifier file sees
KnownIn(file) == IF file.exists THEN Range(Split(file.text)) ELSE {}

\* number of blocks of the store that carry the title of id
BlockCount(file, id) ==
    Cardinality({k \in 1..Len(file.text) : file.text[k] = TitleOf(id)})

(***************************************************************************)
(* fetch_new_papers and add_new_papers                                     *)
(***************************************************************************)
read_previous_ids_split(file) == Split(file.text)

\* lines 130-137: the identifiers read from the file, [] when it is absent
read_previous_ids(file) ==
    IF file.exists THEN Split(file.text) ELSE <<>>

file_after_read_truncating(file) == EmptyFile

\* lines 134-137: an absent identifier file is created empty
file_after_read(file) == IF file.exists THEN file ELSE EmptyFile

delta_unfiltered(candidates, known) == candidates

delta_inverted(candidates, known) ==
    SelectSeq(candidates, LAMBDA i : i \in Range(known))

\* line 139
delta(candidates, known) ==
    SelectSeq(candidates, LAMBDA i : i \notin Range(known))

all_ids_new_only(new, known) == new

\* line 140
all_ids(new, known) == new \o known

\* lines 143 and 147: the identifiers whose details are fetched
to_fetch(verbose, candidates, new) == IF verbose THEN candidates ELSE new

does_fetch_always(verbose, new) == TRUE

\* lines 142 and 145: whether this call fetches at all
does_fetch(verbose, new) == verbose \/ Len(new) > 0

\* Paper constructions started on results: up to and including the first
\* one that raises
parse_count(results) ==
    LET bad == {k \in 1..Len(results) : ~Paper(results[k]).ok}
    IN  IF bad = {} THEN Len(results)
        ELSE CHOOSE k \in bad : \A j \in bad : k <= j

parse_raises(results) == \E k \in 1..Len(results) : ~Paper(results[k]).ok

add_new_papers_append(file, new_papers) ==
    IF new_papers # <<>>
    THEN FileOf(file.text \o Concat(new_papers))
    ELSE file

\* lines 161-172
add_new_papers(file, new_papers) ==
    IF new_papers # <<>>
    THEN FileOf(Concat(new_papers) \o file.text)
    ELSE file

(***************************************************************************)
(* main                                                                    *)
(***************************************************************************)
\* values of --max that are tried; 20 is the default
MaxArgs == {0, 20}

\* line 213: the count used when the store is empty and --max is 0
BootstrapMax == 100

\* lines 210-213
search_max(store_text, max) ==
    IF Len(store_text) > 0 THEN max
    ELSE IF max # 0 THEN max ELSE BootstrapMax

after_search_always_populate(a) == IF a.verbose THEN "verbose" ELSE "populate"

\* lines 217 and 221: the step that follows a non-empty search
after_search(a) ==
    IF a.verbose THEN "verbose"
    ELSE IF ~a.do_not_populate THEN "populate" ELSE "done"

\* line 221, after the verbose branch
after_verbose(a) == IF ~a.do_not_populate THEN "populate" ELSE "done"

NoPapers == [none |-> TRUE, list |-> <<>>]

NoNewMsg == [msg |-> "No new papers found.", n |-> 0]

AddedMsg(n) == [msg |-> "Added {} new papers.", n |-> n]

PaperMsg(k) == [msg |-> "long_print", n |-> k]

NoArgs == [verbose |-> FALSE, do_not_populate |-> FALSE, max |-> 20]

\* persisted state a first run can find: nothing, files left empty, or one
\* ingested record
InitFiles ==
    {<<AbsentFile, AbsentFile>>, <<AbsentFile, EmptyFile>>,
     <<EmptyFile, AbsentFile>>, <<EmptyFile, EmptyFile>>,
     <<FileOf(<<"1">>), FileOf(Paper(GoodRecord(<<"1">>)).yml)>>}

InitMain ==
    /\ \E f \in InitFiles : idsFile = f[1] /\ papersFile = f[2]
    /\ pc = "idle"
    /\ args = NoArgs
    /\ current_papers = <<>>
    /\ retmax = 0
    /\ ids = <<>>
    /\ previous_ids = <<>>
    /\ ids_new = <<>>
    /\ papers = NoPapers
    /\ fetched = <<>>
    /\ parsed = 0
    /\ writes = 0
    /\ out = <<>>
    /\ idsFile0 = idsFile
    /\ papersFile0 = papersFile
    /\ prevSeen = {}
    /\ prevOK = FALSE

InitPaperIdle == rec = GoodRecord(<<"1">>) /\ paper = NoPaper

Init == InitMain /\ InitPaperIdle

(***************************************************************************)
(* Actions of a run of main                                                *)
(***************************************************************************)
\* lines 188-205: parse the arguments, read papers.yml or create it empty
main_start(v, d, m) ==
    /\ pc \in {"idle", "done", "aborted"}
    /\ args' = [verbose |-> v, do_not_populate |-> d, max |-> m]
    /\ current_papers' = papersFile.text
    /\ papersFile' = IF papersFile.exists THEN papersFile ELSE EmptyFile
    /\ idsFile0' = idsFile
    /\ papersFile0' = papersFile
    /\ prevOK' = (pc = "done" /\ ~args.do_not_populate)
    /\ prevSeen' = IF prevOK' THEN Range(ids) ELSE {}
    /\ ids' = <<>>
    /\ retmax' = 0
    /\ previous_ids' = <<>>
    /\ ids_new' = <<>>
    /\ papers' = NoPapers
    /\ fetched' = <<>>
    /\ parsed' = 0
    /\ writes' = 0
    /\ out' = <<>>
    /\ pc' = "search"
    /\ UNCHANGED idsFile

\* lines 207-215: search; an empty result ends the run
main_search(result) ==
    /\ pc = "search"
    /\ retmax' = search_max(current_papers, args.max)
    /\ result \in search_author(retmax')
    /\ ids' = result
    /\ pc' = IF Len(result) = 0 THEN "done" ELSE after_search(args)
    /\ UNCHANGED <<idsFile, papersFile, args, current_papers, previous_ids,
                   ids_new, papers, fetched, parsed, writes, out, idsFile0,
                   papersFile0, prevSeen, prevOK>>

\* lines 107-111: the search request raises and ends the run
main_search_raises ==
    /\ pc = "search"
    /\ retmax' = search_max(current_papers, args.max)
    /\ pc' = "aborted"
    /\ UNCHANGED <<idsFile, papersFile, args, current_papers, ids,
                   previous_ids, ids_new, papers, fetched, parsed, writes,
                   out, idsFile0, papersFile0, prevSeen, prevOK>>

\* whether a call of fetch_new_papers with these outcomes raises
fetch_new_papers_raises(verbose, net_ok, results) ==
    /\ does_fetch(verbose, delta(ids, read_previous_ids(idsFile)))
    /\ ~net_ok \/ parse_raises(results)

\* the outcomes fetch_details can have in a call of fetch_new_papers
fetch_outcomes(verbose, net_ok) ==
    LET new == delta(ids, read_previous_ids(idsFile))
    IN  IF does_fetch(verbose, new) /\ net_ok
        THEN fetch_details(to_fetch(verbose, ids, new))
        ELSE {<<>>}

\* lines 125-158, and for a verbose call the printing of lines 219-220
fetch_new_papers(verbose, net_ok, results) ==
    LET prev == read_previous_ids(idsFile)
        new  == delta(ids, prev)
        list == to_fetch(verbose, ids, new)
    IN  /\ previous_ids' = prev
        /\ ids_new' = new
        /\ IF ~does_fetch(verbose, new)
           THEN \* lines 157-158
                /\ net_ok
                /\ idsFile' = file_after_read(idsFile)
                /\ out' = Append(out, NoNewMsg)
                /\ papers' = NoPapers
                /\ UNCHANGED <<fetched, parsed, writes>>
           ELSE /\ fetched' = fetched \o list
                /\ IF ~net_ok
                   THEN \* fetch_details raises
                        /\ idsFile' = file_after_read(idsFile)
                        /\ UNCHANGED <<papers, parsed, writes, out>>
                   ELSE /\ parsed' = parsed + parse_count(results)
                        /\ IF parse_raises(results)
                           THEN /\ idsFile' = file_after_read(idsFile)
                                /\ UNCHANGED <<papers, writes, out>>
                           ELSE IF verbose
                           THEN \* line 144, printed by lines 219-220
                                /\ idsFile' = file_after_read(idsFile)
                                /\ papers' =
                                     [none |-> FALSE,
                                      list |-> [k \in 1..Len(results) |->
                                                  Paper(results[k]).long_print]]
                                /\ out' = out \o [k \in 1..Len(results) |->
                                                    PaperMsg(k)]
                                /\ UNCHANGED writes
                           ELSE \* lines 148-156
                                /\ idsFile' =
                                     FileOf(Join(all_ids(new, prev), <<",">>))
                                /\ writes' = writes + 1
                                /\ papers' =
                                     [none |-> FALSE,
                                      list |-> [k \in 1..Len(results) |->
                                                  Paper(results[k]).yml]]
                                /\ UNCHANGED out

\* lines 217-220
main_verbose(net_ok) ==
    /\ pc = "verbose"
    /\ \E results \in fetch_outcomes(TRUE, net_ok) :
          /\ fetch_new_papers(TRUE, net_ok, results)
          /\ pc' = IF fetch_new_papers_raises(TRUE, net_ok, results)
                   THEN "aborted" ELSE after_verbose(args)
    /\ UNCHANGED <<papersFile, args, current_papers, retmax, ids, idsFile0,
                   papersFile0, prevSeen, prevOK>>

\* lines 221-223
main_populate(net_ok) ==
    /\ pc = "populate"
    /\ \E results \in fetch_outcomes(FALSE, net_ok) :
          /\ fetch_new_papers(FALSE, net_ok, results)
          /\ pc' = IF fetch_new_papers_raises(FALSE, net_ok, results)
                   THEN "aborted"
                   ELSE IF papers'.none THEN "done" ELSE "add"
    /\ UNCHANGED <<papersFile, args, current_papers, retmax, ids, idsFile0,
                   papersFile0, prevSeen, prevOK>>

\* lines 224-225
main_add ==
    /\ pc = "add"
    /\ papersFile' = add_new_papers(papersFile, papers.list)
    /\ writes' = writes + (IF papers.list # <<>> THEN 1 ELSE 0)
    /\ out' = Append(out, AddedMsg(Len(papers.list)))
    /\ pc' = "done"
    /\ UNCHANGED <<idsFile, args, current_papers, retmax, ids, previous_ids,
                   ids_new, papers, fetched, parsed, idsFile0, papersFile0,
                   prevSeen, prevOK>>

\* lines 163-172: opening or writing papers.yml raises
main_add_raises ==
    /\ pc = "add"
    /\ pc' = "aborted"
    /\ UNCHANGED <<idsFile, papersFile, args, current_papers, retmax, ids,
                   previous_ids, ids_new, papers, fetched, parsed, writes,
                   out, idsFile0, papersFile0, prevSeen, prevOK>>

Next ==
    /\ \/ \E v \in BOOLEAN, d \in BOOLEAN, m \in MaxArgs : main_start(v, d, m)
       \/ \E result \in SeqsUpTo(Ids, MaxIds) : main_search(result)
       \/ main_search_raises
       \/ \E net_ok \in BOOLEAN : main_verbose(net_ok)
       \/ \E net_ok \in BOOLEAN : main_populate(net_ok)
       \/ main_add
       \/ main_add_raises
    /\ UNCHANGED paperVars

Spec == Init /\ [][Next]_vars

\* the runs of an install that starts without any of the two files
InitAbsent == Init /\ idsFile = AbsentFile /\ papersFile = AbsentFile

SpecAbsent == InitAbsent /\ [][Next]_vars

(***************************************************************************)
(* The Paper constructor applied to every input record                     *)
(***************************************************************************)
InitPaper == InitMain /\ idsFile = AbsentFile /\ papersFile = AbsentFile
               /\ rec \in RecordSet /\ paper = NoPaper

Paper_init ==
    /\ paper = NoPaper
    /\ paper' = Paper(rec)
    /\ UNCHANGED <<rec, mainVars>>

NextPaper == Paper_init

SpecPaper == InitPaper /\ [][NextPaper]_vars

(***************************************************************************)
(* The delta of lines 130-140 applied to every candidate list              *)
(***************************************************************************)
InitDelta ==
    /\ InitPaperIdle
    /\ ids \in SeqsUpTo(Ids, MaxCandidates)
    /\ idsFile \in {AbsentFile} \cup
                   {FileOf(Join(k, <<",">>)) : k \in SeqsUpTo(Ids, MaxKnown)}
    /\ papersFile = EmptyFile
    /\ pc = "delta"
    /\ args = NoArgs
    /\ current_papers = <<>>
    /\ retmax = 0
    /\ previous_ids = <<>>
    /\ ids_new = <<>>
    /\ papers = NoPapers
    /\ fetched = <<>>
    /\ parsed = 0
    /\ writes = 0
    /\ out = <<>>
    /\ idsFile0 = idsFile
    /\ papersFile0 = papersFile
    /\ prevSeen = {}
    /\ prevOK = FALSE

\* lines 130-140
fetch_new_papers_delta ==
    /\ pc = "delta"
    /\ previous_ids' = read_previous_ids(idsFile)
    /\ ids_new' = delta(ids, previous_ids')
    /\ idsFile' = file_after_read(idsFile)
    /\ pc' = "delta_done"
    /\ UNCHANGED <<papersFile, args, current_papers, retmax, ids, papers,
                   fetched, parsed, writes, out, idsFile0, papersFile0,
                   prevSeen, prevOK, paperVars>>

NextDelta == fetch_new_papers_delta

SpecDelta == InitDelta /\ [][NextDelta]_vars

(***************************************************************************)
(* Properties of the ingestion (checked under Spec)                        *)
(***************************************************************************)
RunOver == pc \in {"done", "aborted"}

\* C1: the store never holds two blocks of the same identifier.
C1_AtMostOnce == \A id \in Ids : BlockCount(papersFile, id) <= 1

\* a pass with writes enabled added blocks while its search also returned an
\* identifier whose block was already in the store
C1_Witness ==
    /\ pc = "done" /\ ~args.do_not_populate
    /\ papersFile.text # papersFile0.text
    /\ \E id \in Range(ids) :
          id \in KnownIn(idsFile0) /\ BlockCount(papersFile0, id) = 1

\* C2: a run with the verbose flag ends with both files as they were when
\* it started.
C2_VerboseReadOnly ==
    (RunOver /\ args.verbose) =>
        idsFile = idsFile0 /\ papersFile = papersFile0

\* C3: when a completed pass with writes enabled is followed by a pass with
\* writes enabled whose search returns only identifiers the first one
\* returned, the second pass ends with both files as it found them.
C3_Idempotent ==
    (RunOver /\ prevOK /\ ~args.do_not_populate /\ Range(ids) \subseteq prevSeen)
        => idsFile = idsFile0 /\ papersFile = papersFile0

\* the second pass found a non-empty part of what the first pass found, and
\* the store is not empty
C3_Witness ==
    /\ pc = "done" /\ prevOK /\ ~args.do_not_populate
    /\ ids # <<>> /\ Range(ids) \subseteq prevSeen /\ Range(ids) # prevSeen
    /\ papersFile.text # <<>>

\* the search returned identifiers that were all known when the run started
DeltaEmpty == ids # <<>> /\ Range(ids) \subseteq KnownIn(idsFile0)

C5_Bootstrap ==
    /\ ( /\ pc = "done" /\ ~args.verbose /\ ~args.do_not_populate
         /\ ~idsFile0.exists /\ ~papersFile0.exists /\ ids # <<>> )
       => /\ idsFile = FileOf(Join(ids, <<",">>))
          /\ papersFile.exists
          /\ \A id \in Ids : BlockCount(papersFile, id) =
                               IF id \in Range(ids) THEN 1 ELSE 0
    /\ ( /\ pc = "done" /\ ~args.do_not_populate /\ prevOK
         /\ ids # <<>> /\ Range(ids) = prevSeen )
       => writes = 0 /\ NoNewMsg \in Range(out)

\* the second run found "1" and "2" again, the file holds "1,2"
C5_Witness ==
    /\ pc = "done" /\ ~args.do_not_populate /\ prevOK
    /\ ids = << <<"1">>, <<"2">> >> /\ Range(ids) = prevSeen
    /\ idsFile = FileOf(<<"1", ",", "2">>)
    /\ BlockCount(papersFile, <<"1">>) = 1 /\ BlockCount(papersFile, <<"2">>) = 1
    /\ writes = 0 /\ NoNewMsg \in Range(out)

\* C7: add_new_papers leaves the store equal to the new blocks, in the order
\* given, followed by the content the store had.
C7_Prepend ==
    [][(pc = "add" /\ pc' = "done") =>
          LET B == Concat(papers.list)
              C == papersFile.text
              R == papersFile'.text
          IN  /\ papers.list # <<>>
              /\ Len(R) = Len(B) + Len(C)
              /\ SubSeq(R, 1, Len(B)) = B
              /\ SubSeq(R, Len(B) + 1, Len(R)) = C]_vars

\* two blocks were put in front of a store that was not empty
C7_Witness ==
    /\ pc = "done" /\ Len(papers.list) = 2 /\ AddedMsg(2) \in Range(out)
    /\ papersFile0.text # <<>>
    /\ papersFile.text = Concat(papers.list) \o papersFile0.text

\* C8: a run that finds the store empty or absent searches with a larger
\* count than a run with the same arguments that finds the store not empty.
C8_BootstrapLarger ==
    (pc \notin {"idle", "search"} /\ current_papers = <<>>) =>
        retmax > search_max(<<"- author: ">>, args.max)

\* C9 as stated: a run with -d and without -v fetches and parses nothing and
\* ends with both files as they were when it started.
C9_SuppressWriteUnchanged ==
    (RunOver /\ args.do_not_populate /\ ~args.verbose) =>
        /\ fetched = <<>> /\ parsed = 0
        /\ idsFile = idsFile0 /\ papersFile = papersFile0

\* C9 amended: a run with -d and without -v fetches, parses and writes
\* nothing, leaves the identifier file as it was and the content of the
\* store as it was; a store file that was absent exists and is empty.
C9_SuppressWrite ==
    (RunOver /\ args.do_not_populate /\ ~args.verbose) =>
        /\ fetched = <<>> /\ parsed = 0 /\ writes = 0
        /\ idsFile = idsFile0
        /\ papersFile = FileOf(papersFile0.text)

\* a run with -d alone found an unknown identifier and no store file
C9_Witness ==
    /\ pc = "done" /\ args.do_not_populate /\ ~args.verbose
    /\ \E id \in Range(ids) : id \notin KnownIn(idsFile)
    /\ ~papersFile0.exists /\ papersFile.exists

\* the identifiers in the identifier file: its entries that are not empty
IdsIn(file) == KnownIn(file) \ {<<>>}

\* C14: whenever a run is over, completed or aborted, every identifier in the
\* identifier file has its block in the store.
C14_IngestedMeansWritten ==
    RunOver =>
        \A id \in Ids : id \in IdsIn(idsFile) => BlockCount(papersFile, id) >= 1

\* C15 as stated: when fetch_new_papers raises, the run is aborted with both
\* files as they were when it started.
C15_FailureUnchanged ==
    [][(pc \in {"verbose", "populate"} /\ pc' = "aborted") =>
          idsFile' = idsFile0 /\ papersFile' = papersFile0]_vars

\* C15 amended: when fetch_new_papers raises, the run is aborted with both
\* files holding the text they held when it started (a file that was absent
\* exists and is empty), and a later read of the identifier file gives the
\* same delta.
C15_FailureKeepsContent ==
    [][(pc \in {"verbose", "populate"} /\ pc' = "aborted") =>
          /\ idsFile' = FileOf(idsFile0.text)
          /\ papersFile' = FileOf(papersFile0.text)
          /\ \A k \in 1..Len(ids) :
                ids[k] \in IdsIn(idsFile') <=> ids[k] \in IdsIn(idsFile0)]_vars

\* a pass with writes enabled over a file with identifiers was aborted while
\* parsing the records of its delta
C15_Witness ==
    /\ pc = "aborted" /\ ~args.verbose /\ ~args.do_not_populate
    /\ ids_new # <<>> /\ fetched = ids_new /\ parsed > 0
    /\ IdsIn(idsFile0) # {} /\ idsFile = idsFile0 /\ papersFile = papersFile0

\* C16: the identifiers in the file when a run started are in it at every
\* later point of the run, and when a pass with writes enabled is completed
\* the file holds these and the identifiers of the search that were not among
\* them, and nothing else.
C16_NeverPruned ==
    /\ pc # "idle" => IdsIn(idsFile0) \subseteq IdsIn(idsFile)
    /\ (pc = "done" /\ ~args.do_not_populate /\ ids # <<>>) =>
           IdsIn(idsFile) = IdsIn(idsFile0) \cup Range(ids)

\* a completed pass added an identifier to a file that held another one
C16_Witness ==
    /\ pc = "done" /\ ~args.do_not_populate
    /\ IdsIn(idsFile0) # {} /\ IdsIn(idsFile) # IdsIn(idsFile0)
    /\ IdsIn(idsFile0) \subseteq IdsIn(idsFile)

\* C17: the identifier file is empty, or it splits at its commas into
\* identifiers only: no empty entry, so no leading, trailing or doubled comma
\* (checked under SpecAbsent).
C17_WellFormedFile ==
    \/ idsFile.text = <<>>
    \/ \A k \in 1..Len(Split(idsFile.text)) : Split(idsFile.text)[k] \in Ids

(***************************************************************************)
(* Properties of the delta (checked under SpecDelta)                       *)
(***************************************************************************)
\* positions of the candidates that are not known
NewPositions == {k \in 1..Len(ids) : ids[k] \notin Range(previous_ids)}

\* the j-th smallest of these positions
NthNewPosition(j) ==
    CHOOSE k \in NewPositions :
        Cardinality({m \in NewPositions : m <= k}) = j

\* C6: the delta has one element for each position of the candidate list
\* whose identifier is not known, and its j-th element is the candidate at
\* the j-th such position.
C6_DeltaCorrect ==
    pc = "delta_done" =>
        /\ Len(ids_new) = Cardinality(NewPositions)
        /\ \A j \in 1..Len(ids_new) : ids_new[j] = ids[NthNewPosition(j)]

\* some candidates are known, and two that are not were kept
C6_Witness ==
    /\ pc = "delta_done"
    /\ Len(ids_new) = 2 /\ Len(ids) = 3 /\ ids_new[1] # ids_new[2]

(***************************************************************************)
(* Properties of the Paper constructor (checked under SpecPaper)           *)
(***************************************************************************)
RecAuthors == rec.MedlineCitation.Article.AuthorList

\* "Last, First" of the k-th author of rec
LastFirst(k) == <<RecAuthors[k].LastName, ", ", RecAuthors[k].ForeName>>

Built == paper # NoPaper

RecArticle == rec.MedlineCitation.Article

\* every author of rec has a LastName and a ForeName
AllNamed == \A k \in 1..Len(RecAuthors) : parse_author_ok(RecAuthors[k])

\* "Last, First" of every author of rec, joined by ", "
RECURSIVE AllLastFirst(_)
AllLastFirst(n) ==
    IF n = 0 THEN <<>>
    ELSE IF n = 1 THEN LastFirst(1)
    ELSE AllLastFirst(n - 1) \o <<", ">> \o LastFirst(n)

\* C11: a Paper constructed from a record with one, two or three authors
\* shows all of them, and only a record with four or more authors is reduced
\* to "Last, First et al." of its first author.
C11_FewerThanFourListed ==
    (paper.ok /\ AllNamed) =>
        /\ Len(RecAuthors) \in 1..3 =>
               paper.first_author = AllLastFirst(Len(RecAuthors)) \o <<".">>
        /\ Len(RecAuthors) >= 4 =>
               paper.first_author = LastFirst(1) \o <<" et al.">>

RecJournal == RecArticle.Journal

HasIssueBlock == Has(RecJournal, "JournalIssue")

HasVolume == HasIssueBlock /\ Has(RecJournal.JournalIssue, "Volume")

HasIssue == HasIssueBlock /\ Has(RecJournal.JournalIssue, "Issue")

HasPages ==
    Has(RecArticle, "Pagination") /\ Has(RecArticle.Pagination, "MedlinePgn")

\* the record has a title, named authors, and a page range whenever it has a
\* Pagination block: nothing but the journal tiers is left to vary
JournalCase ==
    /\ Built
    /\ Has(RecArticle, "ArticleTitle")
    /\ Has(RecArticle, "AuthorList") /\ AllNamed
    /\ Has(RecArticle, "Pagination") => HasPages

\* C12: whatever tiers are present, the journal string is rendered without an
\* error; it is the abbreviation alone without a JournalIssue block, the
\* abbreviation and the volume with one, and abbreviation, volume, issue and
\* pages when issue and pages are both present.
C12_JournalDegradation ==
    JournalCase =>
        /\ paper.ok
        /\ paper.journal_info[1] = RecJournal.ISOAbbreviation
        /\ ~HasIssueBlock =>
               paper.journal_info = <<RecJournal.ISOAbbreviation>>
        /\ (HasVolume /\ ~(HasIssue /\ HasPages)) =>
               paper.journal_info =
                   <<RecJournal.ISOAbbreviation, ", ",
                     RecJournal.JournalIssue.Volume>>
        /\ (HasVolume /\ HasIssue /\ HasPages) =>
               paper.journal_info =
                   <<RecJournal.ISOAbbreviation, ", ",
                     RecJournal.JournalIssue.Volume, ", ",
                     RecJournal.JournalIssue.Issue, ", ",
                     RecArticle.Pagination.MedlinePgn>>

\* the record has an article with a title and an author list
MinimalShape ==
    Has(RecArticle, "ArticleTitle") /\ Has(RecArticle, "AuthorList")

\* the record has neither an article date nor a publication year
NoYear ==
    /\ RecArticle.ArticleDate = <<>>
    /\ ~(HasIssueBlock /\ Has(RecJournal.JournalIssue, "PubDate")
           /\ Has(RecJournal.JournalIssue.PubDate, "Year"))

\* C13: the constructor succeeds exactly on the records that have a title and
\* an author list, and then the year is empty when the record has no date and
\* the link is empty when it has no electronic location identifier.
C13_TotalOnMinimalShape ==
    Built =>
        /\ paper.ok <=> MinimalShape
        /\ (paper.ok /\ NoYear) => paper.year = <<>>
        /\ (paper.ok /\ RecArticle.ELocationID = <<>>) => paper.link = <<>>

====
